---- MODULE Spec2Model ----
(***************************************************************************)
(* Model of the trigger pipeline of mqtt-camera-ai-monitor:                *)
(*   index.ts        handleTrigger, initialize, status wiring,             *)
(*                   gracefulShutdown, signal and rejection listeners      *)
(*   cameraService   captureImage, cleanupImageFile(s)                     *)
(*   statusService   updateStatus, updateStats, recordError, recordSuccess *)
(*   mqttService     publish, publishBinary, publishStatus, publishStats,  *)
(*                   initializeChannels, connect handler, last will,       *)
(*                   handleMessage, gracefulShutdown                       *)
(*                                                                         *)
(* The runtime is a single JavaScript event loop: code between two awaits  *)
(* runs without interleaving.  Every action below is one such segment of   *)
(* a handler, from the event that resumes it to its next await (or its     *)
(* return).  The side effects of a segment are appended, in program order, *)
(* to the log of the invocation that performs them.                        *)
(***************************************************************************)
EXTENDS Integers, Sequences, FiniteSets, TLC

(* ------------------------------ bounds --------------------------------- *)
MaxInv == 2        \* trigger events over the life of the process
MaxClock == 3      \* last value of Date.now() (milliseconds since start)
MaxConnects == 2   \* 'connect' events of the bus client over the life of the process
MaxCaptures == 3   \* largest `captures` argument of captureMultipleImages

(* --------------------------- configuration ----------------------------- *)
\* config.cameras after processCameraConfig: captures >= 1, interval >= 0
Cameras ==
    [front |-> [captures |-> 1, interval |-> 1000],
     drive |-> [captures |-> 3, interval |-> 0],
     yard  |-> [captures |-> 2, interval |-> 1]]

CameraNames == DOMAIN Cameras

\* camera names a trigger message can carry: the configured ones and one
\* that is not configured
TriggerNames == CameraNames \cup {"ghost"}

Invs == 1..MaxInv

\* config.mqtt.basetopic
BaseTopic == "cams"

\* the channels of a camera under <basetopic>/<camera>/
Channels == {"image", "ai", "trigger", "status", "stats"}

\* a topic is the sequence of its levels; the topics a message can carry
Topics ==
    {<<BaseTopic, c, ch>> : c \in TriggerNames, ch \in Channels}
    \cup {<<BaseTopic, "online">>, <<BaseTopic, "front">>,
          <<BaseTopic, "front", "trigger", "set">>,
          <<BaseTopic, "front", "trigger", "image">>,
          <<"other", "front", "trigger">>}

\* the payloads a message can carry
Payloads == {"YES", "yes", "Yes", "NO", "no", "", "YES!"}

Messages == [topic : Topics, message : Payloads]

EmptyObj == [x \in {} |-> 0]

(* ------------------------- configuration file -------------------------- *)
\* the `mqtt` section: complete, without server, without basetopic, and with
\* an empty server
MqttSections ==
    {[server |-> "broker", port |-> 1883, basetopic |-> BaseTopic],
     [port |-> 1883, basetopic |-> BaseTopic],
     [server |-> "broker", port |-> 1883],
     [server |-> "", port |-> 1883, basetopic |-> BaseTopic]}

\* the `openai` section: complete, and without one of its fields
OpenaiSections ==
    {[endpoint |-> "http://ai", api_token |-> "token", model |-> "vision"],
     [api_token |-> "token", model |-> "vision"],
     [endpoint |-> "http://ai", model |-> "vision"],
     [endpoint |-> "http://ai", api_token |-> "token"]}

\* the entry of camera front: with and without endpoint and prompt, captures
\* absent, 0 or 1, interval absent, -1 or 1000
FrontEntries ==
    {e @@ c @@ i :
        e \in {[endpoint |-> "rtsp://front", prompt |-> "what is there?"],
               [prompt |-> "what is there?"],
               [endpoint |-> "rtsp://front"]},
        c \in {EmptyObj, [captures |-> 0], [captures |-> 1]},
        i \in {EmptyObj, [interval |-> 0 - 1], [interval |-> 1000]}}

\* the `cameras` section: the three cameras, or no camera at all
CamerasSections ==
    {[front |-> f,
      drive |-> [endpoint |-> "rtsp://drive", prompt |-> "any car?",
                 captures |-> 3, interval |-> 0],
      yard  |-> [endpoint |-> "rtsp://yard", prompt |-> "any motion?",
                 captures |-> 2, interval |-> 1]] : f \in FrontEntries}
    \cup {EmptyObj}

\* the documents the configuration file can hold
ConfigFiles ==
    {[mqtt |-> m, openai |-> o, cameras |-> c] :
        m \in MqttSections, o \in OpenaiSections, c \in CamerasSections}
    \cup {[openai |-> o, cameras |-> c] : o \in OpenaiSections, c \in CamerasSections}
    \cup {[mqtt |-> m, cameras |-> c] : m \in MqttSections, c \in CamerasSections}
    \cup {[mqtt |-> m, openai |-> o] : m \in MqttSections, o \in OpenaiSections}
    \cup {EmptyObj}

\* the configuration file of a running service
ValidFile ==
    [mqtt |-> [server |-> "broker", port |-> 1883, basetopic |-> BaseTopic],
     openai |-> [endpoint |-> "http://ai", api_token |-> "token", model |-> "vision"],
     cameras |->
        [front |-> [endpoint |-> "rtsp://front", prompt |-> "what is there?"],
         drive |-> [endpoint |-> "rtsp://drive", prompt |-> "any car?",
                    captures |-> 3, interval |-> 0],
         yard  |-> [endpoint |-> "rtsp://yard", prompt |-> "any motion?",
                    captures |-> 2, interval |-> 1]]]

\* `config` before loadConfig has returned
NotLoaded == EmptyObj

\* !o.f for a section or a string field
Falsy(o, f) == f \notin DOMAIN o \/ o[f] = ""

\* the defaults processCameraConfig sets: captures = 1, interval = 1000
withDefaults(camera) == camera @@ [captures |-> 1, interval |-> 1000]

\* mutant: captures = 0 is accepted
processCameraConfigThrows_zeroCaptures(camera) ==
    \/ Falsy(camera, "endpoint")
    \/ Falsy(camera, "prompt")
    \/ withDefaults(camera).captures < 0
    \/ withDefaults(camera).interval < 0

\* processCameraConfig throws for this camera
processCameraConfigThrows(camera) ==
    \/ Falsy(camera, "endpoint")
    \/ Falsy(camera, "prompt")
    \/ withDefaults(camera).captures < 1
    \/ withDefaults(camera).interval < 0

\* loadConfig throws inside its try block
loadConfigThrows(file) ==
    \/ "mqtt" \notin DOMAIN file \/ "openai" \notin DOMAIN file \/ "cameras" \notin DOMAIN file
    \/ Falsy(file.mqtt, "server") \/ Falsy(file.mqtt, "basetopic")
    \/ Falsy(file.openai, "endpoint") \/ Falsy(file.openai, "api_token")
    \/ Falsy(file.openai, "model")
    \/ DOMAIN file.cameras = {}
    \/ \E name \in DOMAIN file.cameras : processCameraConfigThrows(file.cameras[name])

\* what loadConfig returns when it does not throw
loadConfig(file) ==
    [file EXCEPT !.cameras = [name \in DOMAIN @ |-> withDefaults(@[name])]]

(* ------------------------------ values --------------------------------- *)
\* a status label; i and n are the numbers interpolated into the label
Label(s) == [l |-> s, i |-> 0, n |-> 0]
Progress(s, i, n) == [l |-> s, i |-> i, n |-> n]

\* `./temp_${timestamp}.jpg`
TempPath(timestamp) == [temp |-> timestamp]

\* the JPEG written by the k-th capture of invocation v
Frame(v, k) == [inv |-> v, idx |-> k]

\* Buffer.alloc(0)
EmptyBuffer == [inv |-> 0, idx |-> 0]

\* new Date().toISOString()
ISOString(t) == [iso |-> t]

\* (end - start) / 1000
Seconds(ms) == [num |-> ms, den |-> 1000]

\* JSON.stringify(stats)
JSONstringify(o) == [json |-> o]

\* one logged side effect of an invocation
Ev(k, cam, ch, v, ok) == [k |-> k, cam |-> cam, ch |-> ch, v |-> v, ok |-> ok]

VARIABLES
    now,            \* Date.now()
    connected,      \* MqttService.client.connected
    retained,       \* broker: last retained payload per topic <<camera, channel>>
    fs,             \* the working directory: path -> content of the file
    cameraStatus,   \* StatusService.cameraStatus
    cameraStats,    \* StatusService.cameraStats
    inv,            \* the handleTrigger invocations in flight: locals, position, log
    returned,       \* the invocation that returned last, as it was at its return
    inits,          \* number of runs of the 'connected' listener (initializeChannels)
    delivered,      \* the message the 'message' listener handled last
    shutdown,       \* gracefulShutdown: position, log, client.end() pending / done
    exitCode,       \* code passed to process.exit, Running while the process runs
    configFile,     \* the document yaml.load returns for the configuration file
    config,         \* the exported `config`: NotLoaded until loadConfig has returned
    multi,          \* a call of captureMultipleImages: arguments, locals, position, log
    held            \* what a read accessor of StatusService returned to its caller

vars == <<now, connected, retained, fs, cameraStatus, cameraStats, inv, returned,
          inits, delivered, shutdown, exitCode, configFile, config, multi, held>>

\* what the pipeline, the bus client and the shutdown leave alone
rest == <<configFile, config, multi, held>>

Running == -1

\* no message handled yet
NoMessage == [topic |-> <<>>, message |-> ""]

\* no read accessor has been called
NoValue == [acc |-> "none", cam |-> "", at |-> <<>>, refs |-> {}]

\* captureMultipleImages has not been called
NoCall ==
    [pc |-> "idle", cam |-> "", captures |-> 1, interval |-> 1000, i |-> 0,
     imagePaths |-> <<>>, outputFilePath |-> TempPath(0), ncap |-> 0,
     waitUntil |-> 0, log |-> <<>>]

\* gracefulShutdown has not been called
NoShutdown == [pc |-> "none", log |-> <<>>, ending |-> FALSE, ended |-> FALSE]

\* locals of an invocation that has not been launched
IdleInv ==
    [pc |-> "idle", cam |-> "", i |-> 0, imagePaths |-> <<>>,
     outputFilePath |-> TempPath(0), ncap |-> 0,
     totalStartTime |-> 0, aiStartTime |-> 0, waitUntil |-> 0,
     aiProcessTime |-> Seconds(0), totalProcessTime |-> Seconds(0),
     log |-> <<>>, v |-> 0]

\* the state a handler segment of invocation v works on
World(v) ==
    [retained |-> retained, fs |-> fs, cameraStatus |-> cameraStatus,
     cameraStats |-> cameraStats, r |-> inv[v]]

\* a handler segment ends; a rejection of the promise of handleTrigger has no
\* handler but the 'unhandledRejection' listener: process.exit(1)
Commit(v, w) ==
    /\ exitCode' = IF w.r.pc = "rejected" THEN 1 ELSE exitCode
    /\ retained' = w.retained
    /\ fs' = w.fs
    /\ cameraStatus' = w.cameraStatus
    /\ cameraStats' = w.cameraStats
    /\ IF w.r.pc = "done"
       THEN /\ inv' = [inv EXCEPT ![v] = [IdleInv EXCEPT !.pc = "done"]]
            /\ returned' = [w.r EXCEPT !.v = v]
       ELSE /\ inv' = [inv EXCEPT ![v] = w.r]
            /\ UNCHANGED returned

Log(w, e) == [w EXCEPT !.r.log = Append(@, e)]

(* ----------------------------- MqttService ----------------------------- *)
\* mutant: publish without the test of client.connected
publish_unguarded(w, cam, ch, message) ==
    Log([w EXCEPT !.retained = (<<cam, ch>> :> message) @@ @],
        Ev("pub", cam, ch, message, TRUE))

\* publish / publishBinary: dropped with a warning when not connected
publish(w, cam, ch, message) ==
    IF connected
    THEN Log([w EXCEPT !.retained = (<<cam, ch>> :> message) @@ @],
             Ev("pub", cam, ch, message, TRUE))
    ELSE Log(w, Ev("pub", cam, ch, message, FALSE))

publishBinary(w, cam, ch, data) == publish(w, cam, ch, data)

publishStatus(w, cam, status) == publish(w, cam, "status", status)

publishStats(w, cam, stats) == publish(w, cam, "stats", JSONstringify(stats))

\* the topic filter `<basetopic>/+/trigger` and the one of each camera
Subscriptions ==
    {<<BaseTopic, "+", "trigger">>} \cup {<<BaseTopic, c, "trigger">> : c \in CameraNames}

\* the broker delivers a message to a subscription whose filter it matches
Matches(filter, topic) ==
    /\ Len(filter) = Len(topic)
    /\ \A k \in 1..Len(filter) : filter[k] = "+" \/ filter[k] = topic[k]

\* topic.endsWith('/image')
isBinaryImageTopic(topic) == Len(topic) >= 2 /\ topic[Len(topic)] = "image"

\* String.prototype.toUpperCase on the payloads
toUpperCase(message) ==
    CASE message \in {"YES", "yes", "Yes"} -> "YES"
      [] message \in {"NO", "no"} -> "NO"
      [] OTHER -> message

\* mutant: the payload is compared as it is
handleMessage_caseSensitive(topic, message, isBinaryTopic) ==
    IF isBinaryTopic THEN {}
    ELSE IF ~(Len(topic) >= 2 /\ topic[1] = BaseTopic) THEN {}
    ELSE LET targetTopic == Tail(topic)
         IN  IF targetTopic = <<"online">> THEN {}
             ELSE IF Len(targetTopic) < 2 THEN {}
             ELSE IF targetTopic[2] = "trigger" /\ message = "YES"
                  THEN {targetTopic[1]}
                  ELSE {}

\* handleMessage: the camera names for which 'trigger' is emitted
handleMessage(topic, message, isBinaryTopic) ==
    IF isBinaryTopic THEN {}
    ELSE IF ~(Len(topic) >= 2 /\ topic[1] = BaseTopic) THEN {}
    ELSE LET targetTopic == Tail(topic)
             topicParts == targetTopic
         IN  IF targetTopic = <<"online">> THEN {}
             ELSE IF Len(topicParts) < 2 THEN {}
             ELSE LET cameraName == topicParts[1]
                      topicName == topicParts[2]
                  IN  IF topicName = "trigger" /\ toUpperCase(message) = "YES"
                      THEN {cameraName}
                      ELSE {}

(* ---------------------------- StatusService ---------------------------- *)
updateStatus(w, cam, status) ==
    LET w1 == [w EXCEPT !.cameraStatus = (cam :> status) @@ @]
        w2 == Log(w1, Ev("status", cam, "", status, TRUE))
    IN  publishStatus(w2, cam, status)

\* mutant: the statistics object is replaced by the fields passed in
updateStats_replace(w, cam, stats) ==
    LET w1 == [w EXCEPT !.cameraStats = (cam :> stats) @@ @]
        w2 == Log(w1, Ev("stats", cam, "", stats, TRUE))
    IN  publishStats(w2, cam, stats)

\* mutant: the statistics of the other cameras are dropped
updateStats_dropOthers(w, cam, stats) ==
    LET old == IF cam \in DOMAIN w.cameraStats THEN w.cameraStats[cam] ELSE EmptyObj
        merged == stats @@ old
        w1 == [w EXCEPT !.cameraStats = (cam :> merged)]
        w2 == Log(w1, Ev("stats", cam, "", stats, TRUE))
    IN  publishStats(w2, cam, merged)

\* mutant: only the fields passed in are handed to the 'statsUpdate' listener
updateStats_emitPassed(w, cam, stats) ==
    LET old == IF cam \in DOMAIN w.cameraStats THEN w.cameraStats[cam] ELSE EmptyObj
        merged == stats @@ old
        w1 == [w EXCEPT !.cameraStats = (cam :> merged) @@ @]
        w2 == Log(w1, Ev("stats", cam, "", stats, TRUE))
    IN  publishStats(w2, cam, stats)

updateStats(w, cam, stats) ==
    LET old == IF cam \in DOMAIN w.cameraStats THEN w.cameraStats[cam] ELSE EmptyObj
        merged == stats @@ old
        w1 == [w EXCEPT !.cameraStats = (cam :> merged) @@ @]
        w2 == Log(w1, Ev("stats", cam, "", stats, TRUE))
    IN  publishStats(w2, cam, merged)

getStatus(cam) ==
    IF cam \in DOMAIN cameraStatus THEN cameraStatus[cam] ELSE Label("Idle")

getStats(cam) ==
    IF cam \in DOMAIN cameraStats THEN cameraStats[cam] ELSE EmptyObj

\* mutant: the error is recorded in the statistics only
recordError_noStatus(w, cam, errorMessage) ==
    updateStats(w, cam,
        [lastErrorDate |-> ISOString(now), lastErrorType |-> errorMessage])

\* mutant: the date of the error is not recorded
recordError_noDate(w, cam, errorMessage) ==
    LET w1 == updateStats(w, cam, [lastErrorType |-> errorMessage])
    IN  updateStatus(w1, cam, Label("Error"))

recordError(w, cam, errorMessage) ==
    LET w1 == updateStats(w, cam,
                  [lastErrorDate |-> ISOString(now), lastErrorType |-> errorMessage])
    IN  updateStatus(w1, cam, Label("Error"))

\* mutant: the status is set before the statistics are recorded
recordSuccess_statusFirst(w, cam, aiProcessTime, totalProcessTime) ==
    LET w1 == updateStatus(w, cam, Label("Complete"))
    IN  updateStats(w1, cam,
            [lastSuccessDate |-> ISOString(now),
             lastAiProcessTime |-> aiProcessTime,
             lastTotalProcessTime |-> totalProcessTime])

\* mutant: the success label is not one of the enumeration
recordSuccess_completed(w, cam, aiProcessTime, totalProcessTime) ==
    LET w1 == updateStats(w, cam,
                  [lastSuccessDate |-> ISOString(now),
                   lastAiProcessTime |-> aiProcessTime,
                   lastTotalProcessTime |-> totalProcessTime])
    IN  updateStatus(w1, cam, Label("Completed"))

recordSuccess(w, cam, aiProcessTime, totalProcessTime) ==
    LET w1 == updateStats(w, cam,
                  [lastSuccessDate |-> ISOString(now),
                   lastAiProcessTime |-> aiProcessTime,
                   lastTotalProcessTime |-> totalProcessTime])
    IN  updateStatus(w1, cam, Label("Complete"))

(* ---------------------------- CameraService ---------------------------- *)
Unlink(f, path) == [p \in DOMAIN f \ {path} |-> f[p]]

cleanupImageFile(w, filePath) ==
    IF filePath \in DOMAIN w.fs
    THEN Log([w EXCEPT !.fs = Unlink(@, filePath)],
             Ev("unlink", w.r.cam, "", filePath, TRUE))
    ELSE w

RECURSIVE cleanupFrom(_, _, _)
cleanupFrom(w, filePaths, k) ==
    IF k > Len(filePaths) THEN w
    ELSE cleanupFrom(cleanupImageFile(w, filePaths[k]), filePaths, k + 1)

cleanupImageFiles(w, filePaths) ==
    Log(cleanupFrom(w, filePaths, 1), Ev("cleanup", w.r.cam, "", Len(filePaths), TRUE))

\* captureImage up to its await: the name is chosen, ffmpeg is started
captureImageCall(w) ==
    LET w1 == [w EXCEPT !.r.outputFilePath = TempPath(now),
                        !.r.ncap = @ + 1,
                        !.r.pc = "capture"]
    IN  Log(w1, Ev("capture", w.r.cam, "", TempPath(now), TRUE))

(* ------------------------ handleTrigger segments ----------------------- *)
\* an Error with this message is thrown inside the try block
Throw(w, message) == Log(w, Ev("throw", w.r.cam, "", message, TRUE))

\* mutant: the catch block does not clean up
CatchError_noCleanup(w) ==
    LET error == w.r.log[Len(w.r.log)].v
        w1 == recordError(w, w.r.cam, error)
    IN  [w1 EXCEPT !.r.pc = "errCleanup"]

\* catch block up to `await cameraService.cleanupImageFiles(imagePaths)`;
\* the Error caught is the last one thrown
CatchError(w) ==
    LET error == w.r.log[Len(w.r.log)].v
        w1 == recordError(w, w.r.cam, error)
        w2 == cleanupImageFiles(w1, w1.r.imagePaths)
    IN  [w2 EXCEPT !.r.pc = "errCleanup"]

\* mutant: the progress label counts the captures from 0
LoopBody_zeroBased(w) ==
    LET c == w.r.cam
        w1 == updateStatus(w, c,
                  Progress("Taking snapshot i/n", w.r.i, Cameras[c].captures))
    IN  captureImageCall(w1)

\* one iteration of the multi-capture loop up to `await captureImage`
LoopBody(w) ==
    LET c == w.r.cam
        w1 == updateStatus(w, c,
                  Progress("Taking snapshot i/n", w.r.i + 1, Cameras[c].captures))
    IN  captureImageCall(w1)

\* mutant: only the primary artifact is passed to the inference call
PublishAndInfer_primaryOnly(w, readFails) ==
    LET c == w.r.cam
        w1 == updateStatus(w, c, Label("Publishing image"))
        primary == w1.r.imagePaths[1]
    IN  IF primary \notin DOMAIN w1.fs
        THEN CatchError(Throw(w1, "ENOENT: no such file or directory"))
        ELSE IF readFails
        THEN CatchError(Throw(w1, "EIO: i/o error, read"))
        ELSE
          LET w2 == Log(w1, Ev("read", c, "", w1.fs[primary], TRUE))
              w3 == publishBinary(w2, c, "image", w1.fs[primary])
              w4 == updateStatus(w3, c, Label("Processing with AI"))
              w5 == [w4 EXCEPT !.r.aiStartTime = now, !.r.pc = "infer"]
          IN  Log(w5, Ev("infer", c, "", <<primary>>, TRUE))

\* from 'Publishing image' to `await aiService.sendImagesAndPrompt`;
\* readFails: readFileSync throws although the file is there
PublishAndInfer(w, readFails) ==
    LET c == w.r.cam
        w1 == updateStatus(w, c, Label("Publishing image"))
        primary == w1.r.imagePaths[1]
    IN  IF primary \notin DOMAIN w1.fs
        THEN CatchError(Throw(w1, "ENOENT: no such file or directory"))
        ELSE IF readFails
        THEN CatchError(Throw(w1, "EIO: i/o error, read"))
        ELSE
          LET w2 == Log(w1, Ev("read", c, "", w1.fs[primary], TRUE))
              w3 == publishBinary(w2, c, "image", w1.fs[primary])
              w4 == updateStatus(w3, c, Label("Processing with AI"))
              w5 == [w4 EXCEPT !.r.aiStartTime = now, !.r.pc = "infer"]
          IN  Log(w5, Ev("infer", c, "", w5.r.imagePaths, TRUE))

\* mutant: 'Taking snapshot' is reported twice for a single capture
TriggerStart_dupSnapshot(w, cameraName) ==
    IF cameraName \notin DOMAIN Cameras
    THEN [w EXCEPT !.r.cam = cameraName, !.r.pc = "done"]
    ELSE
      LET w0 == [w EXCEPT !.r.cam = cameraName, !.r.totalStartTime = now,
                          !.r.imagePaths = <<>>]
          w1 == updateStatus(w0, cameraName, Label("Starting image capture"))
          captures == Cameras[cameraName].captures
      IN  IF captures = 1
          THEN captureImageCall(
                   updateStatus(updateStatus(w1, cameraName, Label("Taking snapshot")),
                                cameraName, Label("Taking snapshot")))
          ELSE LoopBody(updateStatus(w1, cameraName,
                            Progress("Taking snapshot i/n", 1, captures)))

\* mutant: a trigger for a camera that is not configured is recorded as an error
TriggerStart_unknownRecorded(w, cameraName) ==
    IF cameraName \notin DOMAIN Cameras
    THEN LET w0 == [w EXCEPT !.r.cam = cameraName]
             w1 == recordError(w0, cameraName, "No configuration found")
         IN  [w1 EXCEPT !.r.pc = "done"]
    ELSE
      LET w0 == [w EXCEPT !.r.cam = cameraName, !.r.totalStartTime = now,
                          !.r.imagePaths = <<>>]
          w1 == updateStatus(w0, cameraName, Label("Starting image capture"))
          captures == Cameras[cameraName].captures
      IN  IF captures = 1
          THEN captureImageCall(updateStatus(w1, cameraName, Label("Taking snapshot")))
          ELSE LoopBody(updateStatus(w1, cameraName,
                            Progress("Taking snapshot i/n", 1, captures)))

\* handleTrigger from its call to its first await (or its return)
TriggerStart(w, cameraName) ==
    IF cameraName \notin DOMAIN Cameras
    THEN [w EXCEPT !.r.cam = cameraName, !.r.pc = "done"]
    ELSE
      LET w0 == [w EXCEPT !.r.cam = cameraName, !.r.totalStartTime = now,
                          !.r.imagePaths = <<>>]
          w1 == updateStatus(w0, cameraName, Label("Starting image capture"))
          captures == Cameras[cameraName].captures
      IN  IF captures = 1
          THEN captureImageCall(updateStatus(w1, cameraName, Label("Taking snapshot")))
          ELSE LoopBody(updateStatus(w1, cameraName,
                            Progress("Taking snapshot i/n", 1, captures)))

\* mutant: the loop also waits after the last capture (i < captures)
CaptureSucceeded_waitAfterLast(w, v, readFails) ==
    LET c == w.r.cam
        captures == Cameras[c].captures
        interval == Cameras[c].interval
        path == w.r.outputFilePath
        w1 == [w EXCEPT !.fs = (path :> Frame(v, w.r.ncap)) @@ @,
                        !.r.imagePaths = Append(@, path)]
    IN  IF captures = 1
        THEN PublishAndInfer(w1, readFails)
        ELSE IF w1.r.i < captures /\ interval > 0
        THEN LET w2 == updateStatus(w1, c,
                           Progress("Waiting for next capture (i/n)", w1.r.i + 1, captures))
                 w3 == Log(w2, Ev("wait", c, "", interval, TRUE))
             IN  [w3 EXCEPT !.r.waitUntil = now + interval, !.r.pc = "wait"]
        ELSE LET w2 == [w1 EXCEPT !.r.i = @ + 1]
             IN  IF w2.r.i < captures
                 THEN LoopBody(w2)
                 ELSE PublishAndInfer(w2, readFails)

\* ffmpeg has exited with status 0 and has written outputFilePath
CaptureSucceeded(w, v, readFails) ==
    LET c == w.r.cam
        captures == Cameras[c].captures
        interval == Cameras[c].interval
        path == w.r.outputFilePath
        w1 == [w EXCEPT !.fs = (path :> Frame(v, w.r.ncap)) @@ @,
                        !.r.imagePaths = Append(@, path)]
    IN  IF captures = 1
        THEN PublishAndInfer(w1, readFails)
        ELSE IF w1.r.i < captures - 1 /\ interval > 0
        THEN LET w2 == updateStatus(w1, c,
                           Progress("Waiting for next capture (i/n)", w1.r.i + 1, captures))
                 w3 == Log(w2, Ev("wait", c, "", interval, TRUE))
             IN  [w3 EXCEPT !.r.waitUntil = now + interval, !.r.pc = "wait"]
        ELSE LET w2 == [w1 EXCEPT !.r.i = @ + 1]
             IN  IF w2.r.i < captures
                 THEN LoopBody(w2)
                 ELSE PublishAndInfer(w2, readFails)

\* mutant: a failed capture is retried
CaptureFailed_retry(w, v, partial) ==
    captureImageCall(Throw(w, "Image capture failed"))

\* mutant: the catch block of captureImage does not delete the file
CaptureFailed_keepsPartial(w, v, partial) ==
    LET path == w.r.outputFilePath
        w0 == IF partial
              THEN Log([w EXCEPT !.fs = (path :> Frame(v, w.r.ncap)) @@ @],
                       Ev("partial", w.r.cam, "", path, TRUE))
              ELSE w
    IN  CatchError(Throw(w0, "Image capture failed"))

\* the catch block of captureImage: ffmpeg of caller v has failed, with or
\* without having written a part of its output; the file at outputFilePath,
\* if there is one, is deleted and an Error is thrown
captureImageCatch(w, v, partial) ==
    LET path == w.r.outputFilePath
        w0 == IF partial
              THEN Log([w EXCEPT !.fs = (path :> Frame(v, w.r.ncap)) @@ @],
                       Ev("partial", w.r.cam, "", path, TRUE))
              ELSE w
        w1 == IF path \in DOMAIN w0.fs
              THEN Log([w0 EXCEPT !.fs = Unlink(@, path)],
                       Ev("unlink", w.r.cam, "", path, TRUE))
              ELSE w0
    IN  Throw(w1, "Image capture failed")

\* the capture of invocation v has failed: handleTrigger's catch block runs
CaptureFailed(w, v, partial) == CatchError(captureImageCatch(w, v, partial))

\* the interval timer has fired
AfterWait(w) == LoopBody([w EXCEPT !.r.i = @ + 1])

\* mutant: a response without choices is thrown as an Error
InferSucceeded_noChoicesThrows(w, hasChoices) ==
    LET c == w.r.cam
        aiEndTime == now
        w0 == Log(w, Ev("response", c, "", IF hasChoices THEN 1 ELSE 0, TRUE))
        w1 == [w0 EXCEPT !.r.aiProcessTime = Seconds(aiEndTime - w.r.aiStartTime),
                         !.r.totalProcessTime = Seconds(aiEndTime - w.r.totalStartTime)]
        w2 == updateStatus(w1, c, Label("Publishing AI response"))
        w3 == publish(w2, c, "ai", "a cat")
        w4 == updateStatus(w3, c, Label("Cleaning up"))
        w5 == cleanupImageFiles(w4, w4.r.imagePaths)
    IN  IF hasChoices
        THEN [w5 EXCEPT !.r.pc = "cleanup"]
        ELSE CatchError(Throw(w0, "No response generated"))

\* mutant: the two durations are taken from each other's start time
InferSucceeded_timesSwapped(w, hasChoices) ==
    LET c == w.r.cam
        aiEndTime == now
        w0 == Log(w, Ev("response", c, "", IF hasChoices THEN 1 ELSE 0, TRUE))
        w1 == [w0 EXCEPT !.r.aiProcessTime = Seconds(aiEndTime - w.r.totalStartTime),
                         !.r.totalProcessTime = Seconds(aiEndTime - w.r.aiStartTime)]
        responseContent == IF hasChoices THEN "a cat" ELSE ""
        w2 == updateStatus(w1, c, Label("Publishing AI response"))
        w3 == publish(w2, c, "ai", responseContent)
        w4 == updateStatus(w3, c, Label("Cleaning up"))
        w5 == cleanupImageFiles(w4, w4.r.imagePaths)
    IN  [w5 EXCEPT !.r.pc = "cleanup"]

\* sendImagesAndPrompt has resolved, with or without choices; up to
\* `await cleanupImageFiles`
InferSucceeded(w, hasChoices) ==
    LET c == w.r.cam
        aiEndTime == now
        w0 == Log(w, Ev("response", c, "", IF hasChoices THEN 1 ELSE 0, TRUE))
        w1 == [w0 EXCEPT !.r.aiProcessTime = Seconds(aiEndTime - w.r.aiStartTime),
                         !.r.totalProcessTime = Seconds(aiEndTime - w.r.totalStartTime)]
        responseContent == IF hasChoices THEN "a cat" ELSE ""
        w2 == updateStatus(w1, c, Label("Publishing AI response"))
        w3 == publish(w2, c, "ai", responseContent)
        w4 == updateStatus(w3, c, Label("Cleaning up"))
        w5 == cleanupImageFiles(w4, w4.r.imagePaths)
    IN  [w5 EXCEPT !.r.pc = "cleanup"]

\* mutant: the rejection of sendImagesAndPrompt is not caught
InferFailed_escapes(w) ==
    [Throw(w, "Request failed with status code 500") EXCEPT !.r.pc = "rejected"]

\* sendImagesAndPrompt has rejected
InferFailed(w) == CatchError(Throw(w, "Request failed with status code 500"))

\* mutant: the catch block awaits a promise that never settles
ErrorTail_neverSettles(w) == [w EXCEPT !.r.pc = "hung"]

\* mutant: the success is recorded before the trigger is reset
SuccessTail_recordFirst(w) ==
    LET c == w.r.cam
        w1 == recordSuccess(w, c, w.r.aiProcessTime, w.r.totalProcessTime)
        w2 == publish(w1, c, "trigger", "NO")
    IN  Log([w2 EXCEPT !.r.pc = "done"], Ev("return", c, "", "ok", TRUE))

\* success path after `await cleanupImageFiles`
SuccessTail(w) ==
    LET c == w.r.cam
        w1 == publish(w, c, "trigger", "NO")
        w2 == recordSuccess(w1, c, w1.r.aiProcessTime, w1.r.totalProcessTime)
    IN  Log([w2 EXCEPT !.r.pc = "done"], Ev("return", c, "", "ok", TRUE))

\* mutant: the catch block does not reset the trigger
ErrorTail_noReset(w) ==
    Log([w EXCEPT !.r.pc = "done"], Ev("return", w.r.cam, "", "error", TRUE))

\* catch block after `await cleanupImageFiles`
ErrorTail(w) ==
    LET c == w.r.cam
        w1 == publish(w, c, "trigger", "NO")
    IN  Log([w1 EXCEPT !.r.pc = "done"], Ev("return", c, "", "error", TRUE))

(* ------------------------------- actions ------------------------------- *)
Init ==
    /\ now = 0
    /\ connected = FALSE
    /\ retained = EmptyObj
    /\ fs = EmptyObj
    /\ cameraStatus = EmptyObj
    /\ cameraStats = EmptyObj
    /\ inv = [v \in Invs |-> IdleInv]
    /\ returned = IdleInv
    /\ inits = 0
    /\ delivered = NoMessage
    /\ shutdown = NoShutdown
    /\ exitCode = Running
    /\ configFile = ValidFile
    /\ config = loadConfig(ValidFile)
    /\ multi = NoCall
    /\ held = NoValue

\* the process is started: nothing has run but the imports of index.ts up to
\* the one of the configuration module
InitConfig ==
    /\ now = 0
    /\ connected = FALSE
    /\ retained = EmptyObj
    /\ fs = EmptyObj
    /\ cameraStatus = EmptyObj
    /\ cameraStats = EmptyObj
    /\ inv = [v \in Invs |-> IdleInv]
    /\ returned = IdleInv
    /\ inits = 0
    /\ delivered = NoMessage
    /\ shutdown = NoShutdown
    /\ exitCode = Running
    /\ configFile \in ConfigFiles
    /\ config = NotLoaded
    /\ multi = NoCall
    /\ held = NoValue

\* `export const config = loadConfig()`: the configuration is returned, or
\* the catch block of loadConfig ends the process with code 20
LoadConfig ==
    /\ exitCode = Running
    /\ config = NotLoaded
    /\ IF loadConfigThrows(configFile)
       THEN exitCode' = 20 /\ UNCHANGED config
       ELSE config' = loadConfig(configFile) /\ UNCHANGED exitCode
    /\ UNCHANGED <<now, connected, retained, fs, cameraStatus, cameraStats, inv,
                   returned, inits, delivered, shutdown, configFile, multi, held>>

\* the clock advances
Tick ==
    /\ exitCode = Running
    /\ now < MaxClock
    /\ now' = now + 1
    /\ UNCHANGED <<connected, retained, fs, cameraStatus, cameraStats, inv, returned,
                   inits, delivered, shutdown, exitCode, rest>>

RECURSIVE initChannels(_, _)
initChannels(ret, cams) ==
    IF cams = {} THEN ret
    ELSE LET c == CHOOSE x \in cams : TRUE
         IN  initChannels(
                 (<<c, "trigger">> :> "NO") @@ (<<c, "image">> :> EmptyBuffer) @@
                 (<<c, "ai">> :> "") @@ (<<c, "stats">> :> JSONstringify(EmptyObj)) @@
                 (<<c, "status">> :> Label("Idle")) @@ ret,
                 cams \ {c})

\* MqttService.initializeChannels, called from the 'connected' listener
initializeChannels(ret) == initChannels(ret, CameraNames)

\* client 'connect' event: online = YES, then the 'connected' listener
MqttConnect ==
    /\ exitCode = Running
    /\ config # NotLoaded
    /\ ~connected
    /\ ~shutdown.ended
    /\ inits < MaxConnects
    /\ connected' = TRUE
    /\ inits' = inits + 1
    /\ retained' = initializeChannels((<<"", "online">> :> "YES") @@ retained)
    /\ UNCHANGED <<now, fs, cameraStatus, cameraStats, inv, returned,
                   delivered, shutdown, exitCode, rest>>

\* the connection is lost without a DISCONNECT packet (network failure,
\* keepalive timeout): the broker publishes the last will, online = NO
\* retained; the client reconnects by itself (reconnectPeriod)
MqttDisconnect ==
    /\ exitCode = Running
    /\ connected
    /\ ~shutdown.ending
    /\ connected' = FALSE
    /\ retained' = (<<"", "online">> :> "NO") @@ retained
    /\ UNCHANGED <<now, fs, cameraStatus, cameraStats, inv, returned,
                   inits, delivered, shutdown, exitCode, rest>>

\* the state gracefulShutdown works on: its side effects go to its own log
ShutdownWorld ==
    [retained |-> retained, fs |-> fs, cameraStatus |-> cameraStatus,
     cameraStats |-> cameraStats, r |-> shutdown]

RECURSIVE offlineAll(_, _)
\* cameras.forEach(cameraName => statusService.updateStatus(cameraName, 'Offline'))
offlineAll(w, cams) ==
    IF cams = {} THEN w
    ELSE LET c == CHOOSE x \in cams : TRUE
         IN  offlineAll(updateStatus(w, c, Label("Offline")), cams \ {c})

\* mutant: the client is ended without publishing online = NO
mqttGracefulShutdown_noPublish(w) ==
    IF connected THEN [w EXCEPT !.r.ending = TRUE] ELSE w

\* MqttService.gracefulShutdown: when connected, online = NO is published
\* retained and client.end() is left to the callback of that publish
mqttGracefulShutdown(w) ==
    IF connected
    THEN [Log([w EXCEPT !.retained = (<<"", "online">> :> "NO") @@ @],
              Ev("pub", "", "online", "NO", TRUE))
          EXCEPT !.r.ending = TRUE]
    ELSE w

\* mutant: online = NO is published before the cameras are set Offline
gracefulShutdown_onlineFirst(w) ==
    [offlineAll(mqttGracefulShutdown(w), CameraNames) EXCEPT !.r.pc = "grace"]

\* gracefulShutdown (index.ts) up to its await of the 1000 ms timer
gracefulShutdown(w) ==
    [mqttGracefulShutdown(offlineAll(w, CameraNames)) EXCEPT !.r.pc = "grace"]

\* SIGTERM or SIGINT is received
Sigterm ==
    /\ exitCode = Running
    /\ config # NotLoaded
    /\ shutdown.pc = "none"
    /\ LET w == gracefulShutdown(ShutdownWorld)
       IN  /\ retained' = w.retained
           /\ cameraStatus' = w.cameraStatus
           /\ shutdown' = w.r
    /\ UNCHANGED <<now, connected, fs, cameraStats, inv, returned,
                   inits, delivered, exitCode, rest>>

\* the callback of the online = NO publish: client.end() sends DISCONNECT,
\* the broker discards the will, the client does not reconnect
MqttEnd ==
    /\ exitCode = Running
    /\ shutdown.ending
    /\ connected' = FALSE
    /\ shutdown' = [shutdown EXCEPT !.ending = FALSE, !.ended = TRUE]
    /\ UNCHANGED <<now, retained, fs, cameraStatus, cameraStats, inv, returned,
                   inits, delivered, exitCode, rest>>

\* the grace timer of gracefulShutdown has fired: process.exit(0); a socket
\* still open is closed without DISCONNECT and the broker publishes the will
ShutdownExit ==
    /\ exitCode = Running
    /\ shutdown.pc = "grace"
    /\ exitCode' = 0
    /\ shutdown' = [shutdown EXCEPT !.pc = "exited"]
    /\ connected' = FALSE
    /\ retained' = IF connected THEN (<<"", "online">> :> "NO") @@ retained ELSE retained
    /\ UNCHANGED <<now, fs, cameraStatus, cameraStats, inv, returned, inits, delivered, rest>>

\* mutant: a trigger waits until no other invocation is in flight
HandleTrigger_serialized(cameraName) ==
    /\ exitCode = Running
    /\ connected
    /\ \A u \in Invs : inv[u].pc \in {"idle", "done"}
    /\ \E v \in Invs :
        /\ inv[v].pc = "idle"
        /\ \A u \in Invs : u < v => inv[u].pc # "idle"
        /\ Commit(v, TriggerStart(World(v), cameraName))
    /\ UNCHANGED <<now, connected, inits, delivered, shutdown, rest>>

\* a 'trigger' event is emitted for cameraName: handleTrigger is called
HandleTrigger(cameraName) ==
    /\ exitCode = Running
    /\ connected
    /\ \E v \in Invs :
        /\ inv[v].pc = "idle"
        /\ \A u \in Invs : u < v => inv[u].pc # "idle"
        /\ Commit(v, TriggerStart(World(v), cameraName))
    /\ UNCHANGED <<now, connected, inits, delivered, shutdown, rest>>

\* client 'message' event: the broker delivers message m, handleMessage
\* parses it and, for a trigger, emits 'trigger': handleTrigger is called
MqttMessage(m) ==
    /\ exitCode = Running
    /\ connected
    /\ \E filter \in Subscriptions : Matches(filter, m.topic)
    /\ delivered' = m
    /\ LET emitted == handleMessage(m.topic, m.message, isBinaryImageTopic(m.topic))
       IN  IF emitted = {}
           THEN UNCHANGED <<now, connected, retained, fs, cameraStatus, cameraStats,
                            inv, returned, inits, shutdown, exitCode, rest>>
           ELSE /\ \E cameraName \in emitted, v \in Invs :
                    /\ inv[v].pc = "idle"
                    /\ \A u \in Invs : u < v => inv[u].pc # "idle"
                    /\ Commit(v, TriggerStart(World(v), cameraName))
                /\ UNCHANGED <<now, connected, inits, shutdown, rest>>

\* the ffmpeg child process of invocation v ends (it takes at least 1 ms)
CaptureReturn(v, ok, readFails, partial) ==
    /\ exitCode = Running
    /\ inv[v].pc = "capture"
    /\ now > inv[v].outputFilePath.temp
    /\ Commit(v, IF ok THEN CaptureSucceeded(World(v), v, readFails)
                 ELSE CaptureFailed(World(v), v, partial))
    /\ UNCHANGED <<now, connected, inits, delivered, shutdown, rest>>

WaitReturn(v) ==
    /\ exitCode = Running
    /\ inv[v].pc = "wait"
    /\ now >= inv[v].waitUntil
    /\ Commit(v, AfterWait(World(v)))
    /\ UNCHANGED <<now, connected, inits, delivered, shutdown, rest>>

\* the inference request of invocation v ends
InferReturn(v, outcome) ==
    /\ exitCode = Running
    /\ inv[v].pc = "infer"
    /\ Commit(v, CASE outcome = "choices" -> InferSucceeded(World(v), TRUE)
                   [] outcome = "nochoices" -> InferSucceeded(World(v), FALSE)
                   [] OTHER -> InferFailed(World(v)))
    /\ UNCHANGED <<now, connected, inits, delivered, shutdown, rest>>

CleanupResume(v) ==
    /\ exitCode = Running
    /\ inv[v].pc = "cleanup"
    /\ Commit(v, SuccessTail(World(v)))
    /\ UNCHANGED <<now, connected, inits, delivered, shutdown, rest>>

ErrorResume(v) ==
    /\ exitCode = Running
    /\ inv[v].pc = "errCleanup"
    /\ Commit(v, ErrorTail(World(v)))
    /\ UNCHANGED <<now, connected, inits, delivered, shutdown, rest>>

Next ==
    \/ Tick
    \/ MqttConnect
    \/ \E c \in TriggerNames : HandleTrigger(c)
    \/ \E v \in Invs, ok \in BOOLEAN, readFails \in BOOLEAN, partial \in BOOLEAN :
          CaptureReturn(v, ok, readFails, partial)
    \/ \E v \in Invs : WaitReturn(v)
    \/ \E v \in Invs, o \in {"choices", "nochoices", "fail"} : InferReturn(v, o)
    \/ \E v \in Invs : CleanupResume(v)
    \/ \E v \in Invs : ErrorResume(v)

Spec == Init /\ [][Next]_vars

\* the cameras triggered over the life of the process
LifeCameras == {"front", "yard"}

\* the life of the process: connection losses, reconnects and shutdown, with
\* one trigger
NextLife ==
    \/ Tick
    \/ MqttConnect
    \/ \E c \in LifeCameras : inv[1].pc = "idle" /\ HandleTrigger(c)
    \/ \E v \in Invs, ok \in BOOLEAN, readFails \in BOOLEAN, partial \in BOOLEAN :
          CaptureReturn(v, ok, readFails, partial)
    \/ \E v \in Invs : WaitReturn(v)
    \/ \E v \in Invs, o \in {"choices", "nochoices", "fail"} : InferReturn(v, o)
    \/ \E v \in Invs : CleanupResume(v)
    \/ \E v \in Invs : ErrorResume(v)
    \/ MqttDisconnect
    \/ Sigterm
    \/ MqttEnd
    \/ ShutdownExit

SpecLife == Init /\ [][NextLife]_vars

\* the start of the process: the configuration is loaded, then the client
\* connects and triggers are handled
NextConfig ==
    \/ LoadConfig
    \/ MqttConnect
    \/ \E c \in TriggerNames : HandleTrigger(c)

SpecConfig == InitConfig /\ [][NextConfig]_vars

\* the message listener alone: what is delivered, and what it launches
NextMsg ==
    \/ MqttConnect
    \/ \E m \in Messages : MqttMessage(m)

SpecMsg == Init /\ [][NextMsg]_vars

(* ------------------------ the pipeline under fairness ------------------ *)
\* Date.now() is followed up to MaxClock only; time goes on after that, so a
\* capture or a timer pending when the clock reads MaxClock can still end
CaptureReturnAtHorizon(v, ok, readFails, partial) ==
    /\ exitCode = Running
    /\ inv[v].pc = "capture"
    /\ now = MaxClock
    /\ now = inv[v].outputFilePath.temp
    /\ Commit(v, IF ok THEN CaptureSucceeded(World(v), v, readFails)
                 ELSE CaptureFailed(World(v), v, partial))
    /\ UNCHANGED <<now, connected, inits, delivered, shutdown, rest>>

WaitReturnAtHorizon(v) ==
    /\ exitCode = Running
    /\ inv[v].pc = "wait"
    /\ now = MaxClock
    /\ now < inv[v].waitUntil
    /\ Commit(v, AfterWait(World(v)))
    /\ UNCHANGED <<now, connected, inits, delivered, shutdown, rest>>

\* the steps by which the capture, the timer, the inference request and the
\* cleanup that invocation v awaits come back to it
CaptureEnds(v) ==
    \E ok \in BOOLEAN, readFails \in BOOLEAN, partial \in BOOLEAN :
        \/ CaptureReturn(v, ok, readFails, partial)
        \/ CaptureReturnAtHorizon(v, ok, readFails, partial)

WaitEnds(v) == WaitReturn(v) \/ WaitReturnAtHorizon(v)

InferEnds(v) == \E o \in {"choices", "nochoices", "fail"} : InferReturn(v, o)

\* one trigger, for any configured camera, with every outcome of its calls
NextFair ==
    \/ Tick
    \/ MqttConnect
    \/ \E c \in CameraNames : inv[1].pc = "idle" /\ HandleTrigger(c)
    \/ \E v \in Invs : CaptureEnds(v)
    \/ \E v \in Invs : WaitEnds(v)
    \/ \E v \in Invs : InferEnds(v)
    \/ \E v \in Invs : CleanupResume(v)
    \/ \E v \in Invs : ErrorResume(v)

\* time passes; every capture call, interval wait and inference call ends,
\* and the event loop runs every continuation that is ready
Resumes(v) ==
    CaptureEnds(v) \/ WaitEnds(v) \/ InferEnds(v) \/ CleanupResume(v) \/ ErrorResume(v)

Fairness ==
    /\ WF_vars(Tick)
    /\ \A v \in Invs : WF_vars(Resumes(v))

SpecFair == Init /\ [][NextFair]_vars /\ Fairness

\* two triggers for different cameras: the invocation of the first one may
\* stay suspended in any of its awaits, the calls of the second one end
HungCamera == "yard"
OtherCamera == "front"

\* a continuation of invocation v, its calls ending with success or failure
HungResumes(v) ==
    \/ \E ok \in BOOLEAN : CaptureReturn(v, ok, FALSE, FALSE)
    \/ \E ok \in BOOLEAN : CaptureReturnAtHorizon(v, ok, FALSE, FALSE)
    \/ WaitEnds(v)
    \/ \E o \in {"choices", "fail"} : InferReturn(v, o)
    \/ CleanupResume(v)
    \/ ErrorResume(v)

NextHung ==
    \/ Tick
    \/ MqttConnect
    \/ inv[1].pc = "idle" /\ HandleTrigger(HungCamera)
    \/ inv[1].pc # "idle" /\ HandleTrigger(OtherCamera)
    \/ \E v \in Invs : HungResumes(v)

SpecHung == Init /\ [][NextHung]_vars /\ WF_vars(Tick) /\ WF_vars(HungResumes(2))

(* -------------------- StatusService read accessors --------------------- *)
Accessors == {"getStats", "getStatus", "getAllCameraStats", "getAllCameraStatuses"}

\* what the accessor hands to its caller: `at` is the value at the time of the
\* return, `refs` the cameras whose statistics object the returned value
\* refers to (the object itself, not a copy of it)
Returns(acc, cam) ==
    CASE acc = "getStats" ->
           [acc |-> acc, cam |-> cam, at |-> getStats(cam),
            refs |-> IF cam \in DOMAIN cameraStats THEN {cam} ELSE {}]
      [] acc = "getStatus" ->
           [acc |-> acc, cam |-> cam, at |-> getStatus(cam), refs |-> {}]
      [] acc = "getAllCameraStats" ->
           [acc |-> acc, cam |-> "", at |-> cameraStats, refs |-> DOMAIN cameraStats]
      [] acc = "getAllCameraStatuses" ->
           [acc |-> acc, cam |-> "", at |-> cameraStatus, refs |-> {}]

\* what the caller reads now in the value it was handed
Deref(h) ==
    CASE h.acc = "getStats" /\ h.refs # {} -> cameraStats[h.cam]
      [] h.acc = "getAllCameraStats" -> [c \in h.refs |-> cameraStats[c]]
      [] OTHER -> h.at

\* some caller reads the tracker
ReadAccessor(acc, cam) ==
    /\ exitCode = Running
    /\ held.acc = "none"
    /\ held' = Returns(acc, cam)
    /\ UNCHANGED <<now, connected, retained, fs, cameraStatus, cameraStats, inv, returned,
                   inits, delivered, shutdown, exitCode, configFile, config, multi>>

\* the pipeline of one camera with a reader of the tracker
NextRead ==
    \/ Tick
    \/ MqttConnect
    \/ HandleTrigger("front")
    \/ \E v \in Invs, ok \in BOOLEAN : CaptureReturn(v, ok, FALSE, FALSE)
    \/ \E v \in Invs, o \in {"choices", "fail"} : InferReturn(v, o)
    \/ \E v \in Invs : CleanupResume(v)
    \/ \E v \in Invs : ErrorResume(v)
    \/ \E acc \in Accessors : ReadAccessor(acc, "front")

SpecRead == Init /\ [][NextRead]_vars

(* ----------------- CameraService.captureMultipleImages ------------------ *)
\* the arguments the call is made with
MultiCaptures == 0..MaxCaptures
MultiIntervals == {-1, 0, 1}

\* the frames of this call are marked with a caller that is no invocation
MultiCaller == 0

MultiWorld ==
    [retained |-> retained, fs |-> fs, cameraStatus |-> cameraStatus,
     cameraStats |-> cameraStats, r |-> multi]

CommitMulti(w) ==
    /\ fs' = w.fs
    /\ multi' = w.r
    /\ UNCHANGED <<now, connected, retained, cameraStatus, cameraStats, inv, returned,
                   inits, delivered, shutdown, exitCode, configFile, config, held>>

InitMulti ==
    /\ now = 0
    /\ connected = FALSE
    /\ retained = EmptyObj
    /\ fs = EmptyObj
    /\ cameraStatus = EmptyObj
    /\ cameraStats = EmptyObj
    /\ inv = [v \in Invs |-> IdleInv]
    /\ returned = IdleInv
    /\ inits = 0
    /\ delivered = NoMessage
    /\ shutdown = NoShutdown
    /\ exitCode = Running
    /\ configFile = ValidFile
    /\ config = loadConfig(ValidFile)
    /\ \E captures \in MultiCaptures, interval \in MultiIntervals :
          multi = [NoCall EXCEPT !.captures = captures, !.interval = interval]
    /\ held = NoValue

\* the call up to its first await; the two argument checks are outside the
\* try block
MultiStart(w) ==
    IF w.r.captures < 1
    THEN [Throw(w, "Number of captures must be at least 1") EXCEPT !.r.pc = "rejected"]
    ELSE IF w.r.interval < 0
    THEN [Throw(w, "Interval must be non-negative") EXCEPT !.r.pc = "rejected"]
    ELSE captureImageCall(w)

\* mutant: the catch block rethrows without deleting the captured files
MultiCatch_noCleanup(w) ==
    [w EXCEPT !.r.pc = "errCleanup"]

\* the catch block up to `await this.cleanupImageFiles(imagePaths)`
MultiCatch(w) ==
    [cleanupImageFiles(w, w.r.imagePaths) EXCEPT !.r.pc = "errCleanup"]

\* captureImage has returned its path: push, then sleep, capture again or
\* return the paths
MultiCaptured(w) ==
    LET path == w.r.outputFilePath
        w1 == [w EXCEPT !.fs = (path :> Frame(MultiCaller, w.r.ncap)) @@ @,
                        !.r.imagePaths = Append(@, path)]
    IN  IF w1.r.i < w1.r.captures - 1 /\ w1.r.interval > 0
        THEN [Log(w1, Ev("wait", "", "", w1.r.interval, TRUE))
                EXCEPT !.r.waitUntil = now + w1.r.interval, !.r.pc = "wait"]
        ELSE LET w2 == [w1 EXCEPT !.r.i = @ + 1]
             IN  IF w2.r.i < w2.r.captures
                 THEN captureImageCall(w2)
                 ELSE [Log(w2, Ev("return", "", "", w2.r.imagePaths, TRUE))
                         EXCEPT !.r.pc = "returned"]

CaptureMultipleImages ==
    /\ multi.pc = "idle"
    /\ CommitMulti(MultiStart(MultiWorld))

\* the ffmpeg child process of the call ends (it takes at least 1 ms)
MultiCaptureReturn(ok, partial) ==
    /\ multi.pc = "capture"
    /\ now > multi.outputFilePath.temp
    /\ CommitMulti(IF ok THEN MultiCaptured(MultiWorld)
                   ELSE MultiCatch(captureImageCatch(MultiWorld, MultiCaller, partial)))

\* the sleep between two captures is over
MultiWaitReturn ==
    /\ multi.pc = "wait"
    /\ now >= multi.waitUntil
    /\ CommitMulti(captureImageCall([MultiWorld EXCEPT !.r.i = @ + 1]))

\* cleanupImageFiles has resolved: `throw error`
MultiRethrow ==
    /\ multi.pc = "errCleanup"
    /\ CommitMulti([Log(MultiWorld, Ev("rethrow", "", "", "Image capture failed", TRUE))
                      EXCEPT !.r.pc = "rejected"])

NextMulti ==
    \/ Tick
    \/ CaptureMultipleImages
    \/ \E ok \in BOOLEAN, partial \in BOOLEAN : MultiCaptureReturn(ok, partial)
    \/ MultiWaitReturn
    \/ MultiRethrow

SpecMulti == InitMulti /\ [][NextMulti]_vars

(* ------------------------- reading the logs ---------------------------- *)
\* the invocations with their logs: those in flight, and the last returned
Logs == {<<v, inv[v].log>> : v \in Invs} \cup {<<returned.v, returned.log>>}

Kind(log, k) == {j \in 1..Len(log) : log[j].k = k}

Pub(log, ch) == {j \in 1..Len(log) : log[j].k = "pub" /\ log[j].ch = ch}

Status(log, l) == {j \in 1..Len(log) : log[j].k = "status" /\ log[j].v.l = l}

Thrown(log, message) == {j \in 1..Len(log) : log[j].k = "throw" /\ log[j].v = message}

IsStatus(e) == e.k = "status"

\* the labels an invocation has passed to updateStatus, in order
StatusLabels(log) ==
    LET st == SelectSeq(log, IsStatus)
    IN  [j \in 1..Len(st) |-> st[j].v]

Returned == returned.pc = "done" /\ returned.cam \in CameraNames

ReturnedOk ==
    /\ Returned
    /\ returned.log[Len(returned.log)].k = "return"
    /\ returned.log[Len(returned.log)].v = "ok"

ReturnedError ==
    /\ Returned
    /\ returned.log[Len(returned.log)].k = "return"
    /\ returned.log[Len(returned.log)].v = "error"

(* ------------------------------- claims -------------------------------- *)
\* C1: an invocation for a configured camera that has returned, by the
\* success path or by any failure path, has called publish with the payload
\* "NO" on its camera's trigger channel before its return.
C1_TriggerResetBeforeReturn ==
    Returned =>
        \E j \in Pub(returned.log, "trigger") :
            /\ returned.log[j].cam = returned.cam
            /\ returned.log[j].v = "NO"
            /\ j < Len(returned.log)

\* an invocation has returned after readFileSync of its first artifact threw
C1_Witness ==
    /\ ReturnedError
    /\ Thrown(returned.log, "ENOENT: no such file or directory") # {}
    /\ returned.cam = "yard"

C3_ResetBeforeCleanup ==
    ReturnedOk =>
        \E c \in Kind(returned.log, "capture"), i \in Pub(returned.log, "image"),
           a \in Kind(returned.log, "infer"), r \in Pub(returned.log, "ai"),
           t \in Pub(returned.log, "trigger"), d \in Kind(returned.log, "cleanup"),
           z \in Kind(returned.log, "stats") :
            c < i /\ i < a /\ a < r /\ r < t /\ t < d /\ d < z

\* C4: an invocation that returned after a failure has, in this order, called
\* updateStats with exactly lastErrorDate and lastErrorType (the message of
\* the Error thrown), set the status "Error", and then cleaned up and reset
\* the trigger; it made no status update after "Error", recorded no success
\* statistics and left none of its artifacts.
C4_ErrorPath ==
    ReturnedError =>
        LET log == returned.log IN
        /\ Cardinality(Kind(log, "throw")) = 1
        /\ \E e \in Kind(log, "throw"), s \in Kind(log, "stats"),
              t \in Status(log, "Error"), c \in Kind(log, "cleanup"),
              r \in Pub(log, "trigger") :
            /\ e < s /\ s < t /\ t < c /\ t < r
            /\ DOMAIN log[s].v = {"lastErrorDate", "lastErrorType"}
            /\ log[s].v.lastErrorType = log[e].v
            /\ log[r].v = "NO"
            /\ \A u \in Kind(log, "status") : u <= t
        /\ \A s \in Kind(log, "stats") : "lastSuccessDate" \notin DOMAIN log[s].v
        /\ Status(log, "Complete") = {}
        /\ \A p \in DOMAIN fs : fs[p].inv # returned.v

\* an invocation has returned after its inference request failed
C4_Witness ==
    /\ ReturnedError
    /\ Thrown(returned.log, "Request failed with status code 500") # {}
    /\ Len(returned.imagePaths) = 3

\* C5: after a capture call of an invocation has failed, the invocation makes
\* no other capture call, and it never calls inference nor publishes on the
\* image or the ai channel.
C5_CaptureFailureAborts ==
    \A vl \in Logs :
        LET log == vl[2] IN
        \A e \in Thrown(log, "Image capture failed") :
            /\ \A c \in Kind(log, "capture") : c < e
            /\ Kind(log, "infer") = {}
            /\ Pub(log, "image") = {}
            /\ Pub(log, "ai") = {}

\* an invocation has returned after its second capture failed
C5_Witness ==
    /\ ReturnedError
    /\ Thrown(returned.log, "Image capture failed") # {}
    /\ Cardinality(Kind(returned.log, "capture")) = 2

\* C6: the status updates of a successful invocation of a camera with
\* captures = 1 are exactly the seven labels, in this order.
C6_StatusSequence ==
    (ReturnedOk /\ Cameras[returned.cam].captures = 1) =>
        StatusLabels(returned.log) =
            << Label("Starting image capture"), Label("Taking snapshot"),
               Label("Publishing image"), Label("Processing with AI"),
               Label("Publishing AI response"), Label("Cleaning up"),
               Label("Complete") >>

\* a single-capture invocation has returned by the success path
C6_Witness == ReturnedOk /\ returned.cam = "front"

\* C7 (as claimed): what an invocation publishes on the image channel is the
\* frame of its own first capture.
C7_ImageIsOwnFirstArtifact ==
    \A vl \in Logs :
        \A j \in Pub(vl[2], "image") : vl[2][j].v = Frame(vl[1], 1)

\* C8: an invocation never makes more than `captures` capture calls, nor
\* more than N-1 waits (none when interval = 0), and never two waits without
\* a capture call in between; once its captures have all succeeded it has
\* made exactly `captures` capture calls and exactly N-1 waits of `interval`
\* ms each when interval > 0 (none when interval = 0), every wait lying
\* between two capture calls.
C8_CapturesAndWaits ==
    \A vl \in Logs :
        LET log == vl[2] IN
        log # <<>> =>
            LET cfg == Cameras[log[1].cam]
                caps == Kind(log, "capture")
                waits == Kind(log, "wait")
                maxWaits == IF cfg.interval > 0 THEN cfg.captures - 1 ELSE 0
            IN  /\ Cardinality(caps) <= cfg.captures
                /\ Cardinality(waits) <= maxWaits
                /\ \A j \in waits :
                       /\ log[j].v = cfg.interval
                       /\ \E a \in caps : a < j
                /\ \A j \in waits, k \in waits :
                       j < k => \E c \in caps : j < c /\ c < k
                /\ Status(log, "Publishing image") # {} =>
                       /\ Cardinality(caps) = cfg.captures
                       /\ Cardinality(waits) = maxWaits
                       /\ \A j \in waits : \E b \in caps : j < b

\* a two-capture invocation with a positive interval has returned by the
\* success path while a three-capture invocation with interval 0 is inferring
C8_Witness ==
    /\ ReturnedOk
    /\ returned.cam = "yard"
    /\ \E v \in Invs : inv[v].cam = "drive" /\ inv[v].pc = "infer"

C10_OneInvocationPerCamera ==
    \A c \in CameraNames :
        Cardinality({v \in Invs : inv[v].cam = c /\ inv[v].pc \notin {"idle", "done"}}) <= 1

\* the invocations in flight for camera c
InFlight(c) == {v \in Invs : inv[v].cam = c /\ inv[v].pc \notin {"idle", "done"}}

\* C11 (as claimed): while the tracked status of a camera is Idle, Complete or
\* Error, no invocation for that camera is in flight.
C11_QuiescentStatus ==
    \A c \in CameraNames :
        getStatus(c).l \in {"Idle", "Complete", "Error"} => InFlight(c) = {}

\* C11 (amended): while the tracked status of a camera is Idle no invocation
\* for it is in flight; after an invocation has set Complete it only relays
\* that status and returns; after it has set Error it only relays that
\* status, deletes its artifacts, resets the trigger and returns.
C11_AfterFinalStatus ==
    /\ \A c \in CameraNames : c \notin DOMAIN cameraStatus => InFlight(c) = {}
    /\ \A vl \in Logs :
        LET log == vl[2] IN
        /\ \A t \in Status(log, "Complete") : \A j \in (t + 1)..Len(log) :
               \/ j = t + 1 /\ log[j].k = "pub" /\ log[j].ch = "status"
               \/ log[j].k = "return"
        /\ \A t \in Status(log, "Error") : \A j \in (t + 1)..Len(log) :
               \/ j = t + 1 /\ log[j].k = "pub" /\ log[j].ch = "status"
               \/ log[j].k \in {"unlink", "cleanup", "return"}
               \/ log[j].k = "pub" /\ log[j].ch = "trigger" /\ log[j].v = "NO"

\* an invocation that has set Error and deleted two artifacts is still in
\* flight, its trigger not yet reset
C11_Witness ==
    \E v \in Invs :
        /\ inv[v].pc = "errCleanup"
        /\ getStatus(inv[v].cam).l = "Error"
        /\ Cardinality(Kind(inv[v].log, "unlink")) = 2
        /\ Pub(inv[v].log, "trigger") = {}

\* the camera and the log of invocation v after a step of v
StepCam(v) == IF inv'[v].pc = "done" THEN returned'.cam ELSE inv'[v].cam
StepLog(v) == IF inv'[v].pc = "done" THEN returned'.log ELSE inv'[v].log

\* C13: a step of an invocation for camera X leaves the tracked status and
\* statistics of every other camera as they were, changes retained payloads
\* only on X/image, X/ai, X/trigger, X/status and X/stats, and every publish
\* call of the invocation is on one of these channels.
C13_OtherCamerasUntouched ==
    [][\A v \in Invs : inv'[v] # inv[v] =>
          LET c == StepCam(v) IN
          /\ \A d \in CameraNames \ {c} :
                /\ (d \in DOMAIN cameraStatus') = (d \in DOMAIN cameraStatus)
                /\ d \in DOMAIN cameraStatus => cameraStatus'[d] = cameraStatus[d]
                /\ (d \in DOMAIN cameraStats') = (d \in DOMAIN cameraStats)
                /\ d \in DOMAIN cameraStats => cameraStats'[d] = cameraStats[d]
          /\ \A t \in DOMAIN retained' :
                (t \notin DOMAIN retained \/ retained'[t] # retained[t]) =>
                    t[1] = c /\ t[2] \in Channels
          /\ \A j \in Kind(StepLog(v), "pub") :
                StepLog(v)[j].cam = c /\ StepLog(v)[j].ch \in Channels]_vars

\* an invocation for front has returned by the success path after one for
\* yard had failed: yard has its error statistics and status
C13_Witness ==
    /\ ReturnedOk
    /\ returned.cam = "front"
    /\ "yard" \in DOMAIN cameraStats
    /\ getStatus("yard").l = "Error"

SuccessFields == {"lastSuccessDate", "lastAiProcessTime", "lastTotalProcessTime"}
ErrorFields == {"lastErrorDate", "lastErrorType"}

\* C14: a step in which an invocation records statistics (the last call of
\* updateStats in its log) passes either exactly the three success fields or
\* exactly the two error fields; afterwards the statistics of its camera
\* hold the values passed for these fields and, for every other field, what
\* they held before (absent if it was absent).
C14_StatsMergedFieldByField ==
    [][\A v \in Invs :
          (inv'[v] # inv[v] /\
           Cardinality(Kind(StepLog(v), "stats")) > Cardinality(Kind(inv[v].log, "stats"))) =>
          LET log == StepLog(v)
              s == CHOOSE j \in Kind(log, "stats") : \A k \in Kind(log, "stats") : k <= j
              passed == log[s].v
              old == getStats(StepCam(v))
              new == cameraStats'[StepCam(v)]
          IN  /\ DOMAIN passed \in {SuccessFields, ErrorFields}
              /\ DOMAIN new = DOMAIN passed \cup DOMAIN old
              /\ \A f \in DOMAIN passed : new[f] = passed[f]
              /\ \A f \in DOMAIN old \ DOMAIN passed : new[f] = old[f]]_vars

\* a camera has both the statistics of a failure and those of a success
C14_Witness ==
    \E c \in CameraNames :
        /\ c \in DOMAIN cameraStats
        /\ DOMAIN cameraStats[c] = SuccessFields \cup ErrorFields

\* C15 (as claimed): the lastTotalProcessTime a successful invocation records
\* is the time from its start to the moment the success is recorded.
C15_TotalTimeToCompletion ==
    ReturnedOk =>
        \A s \in Kind(returned.log, "stats") :
            "lastTotalProcessTime" \in DOMAIN returned.log[s].v =>
                returned.log[s].v.lastTotalProcessTime =
                    Seconds(returned.log[s].v.lastSuccessDate.iso - returned.totalStartTime)

\* C12: no Error thrown in an invocation escapes it: the catch block records
\* it at once (statistics with its message), no invocation ends rejected,
\* every invocation that is over has returned, and the process has not been
\* terminated with code 1.
C12_FailuresAreCaught ==
    /\ exitCode # 1
    /\ \A v \in Invs : inv[v].pc # "rejected"
    /\ \A vl \in Logs :
        LET log == vl[2] IN
        \A e \in Kind(log, "throw") :
            /\ e < Len(log)
            /\ log[e + 1].k = "stats"
            /\ log[e + 1].v.lastErrorType = log[e].v
    /\ Returned => returned.log[Len(returned.log)].k = "return"

\* one invocation has returned after reading its first artifact failed, while
\* another has caught the failure of its inference call or of a capture
C12_Witness ==
    /\ ReturnedError
    /\ Thrown(returned.log, "EIO: i/o error, read") # {}
    /\ \E v \in Invs :
          /\ inv[v].pc = "errCleanup"
          /\ Thrown(inv[v].log, "Request failed with status code 500") # {}

\* the topic is <basetopic>/<camera>/trigger and the payload is "YES" in any
\* letter case
IsTriggerYes(m) ==
    /\ Len(m.topic) = 3
    /\ m.topic[1] = BaseTopic
    /\ m.topic[3] = "trigger"
    /\ m.message \in {"YES", "yes", "Yes"}

\* the topic is one of the channels the service itself publishes on
OwnTopic(topic) ==
    \/ topic = <<BaseTopic, "online">>
    \/ Len(topic) = 3 /\ topic[1] = BaseTopic /\ topic[3] \in Channels

\* C16: the step that handles a delivered message launches an invocation if
\* and only if the topic is <basetopic>/<camera>/trigger and the payload is
\* "YES" ignoring case; and handleMessage emits no trigger for any other
\* message on a channel of the service (online, image, ai, status, stats, or
\* trigger with another payload such as "NO").
C16_LaunchIffTriggerYes ==
    [][/\ \A m \in Messages :
            MqttMessage(m) =>
                ((\E v \in Invs : inv[v].pc = "idle" /\ inv'[v].pc # "idle")
                    <=> IsTriggerYes(m))
       /\ \A m \in Messages :
            (OwnTopic(m.topic) /\ ~IsTriggerYes(m)) =>
                handleMessage(m.topic, m.message, isBinaryImageTopic(m.topic)) = {}]_vars

\* a lower-case "yes" has launched an invocation for yard, and the "NO" then
\* delivered on the same trigger channel has launched nothing
C16_Witness ==
    /\ delivered = [topic |-> <<BaseTopic, "yard", "trigger">>, message |-> "NO"]
    /\ inv[1].cam = "yard" /\ inv[1].pc = "capture"
    /\ inv[2].pc = "idle"

Online == <<"", "online">>

\* C17 (as claimed): the initial values of the channels are published at
\* startup only: the 'connected' listener, which publishes them for every
\* configured camera, runs at most once in the life of the process.
C17_InitOnlyAtStartup == inits <= 1

\* C18: once gracefulShutdown has been called, its log holds, for every
\* configured camera, the status Offline followed at once by its relay on
\* the status channel, and all of these come before the publish of "NO" on
\* <basetopic>/online, which is the last call and is made whenever the client
\* was connected; the process has exited with code 0 only after these steps
\* and the end of the grace period.
C18_ShutdownOrder ==
    /\ shutdown.pc # "none" =>
        LET log == shutdown.log IN
        /\ \A c \in CameraNames :
              \E j \in Status(log, "Offline") :
                /\ log[j].cam = c
                /\ log[j + 1].k = "pub" /\ log[j + 1].ch = "status"
                /\ log[j + 1].cam = c /\ log[j + 1].v = Label("Offline")
                /\ \A k \in Pub(log, "online") : j + 1 < k
        /\ \A k \in Pub(log, "online") : log[k].v = "NO" /\ k = Len(log)
        /\ (\E j \in Pub(log, "status") : log[j].ok) => Pub(log, "online") # {}
    /\ exitCode = 0 <=> shutdown.pc = "exited"

\* the process has exited after a shutdown that began while the client was
\* connected and an invocation was in flight
C18_Witness ==
    /\ exitCode = 0
    /\ Pub(shutdown.log, "online") # {}
    /\ shutdown.ended
    /\ inv[1].pc = "infer"

\* C19: while the client is connected and no shutdown has begun the retained
\* value of <basetopic>/online is "YES"; once the client has been connected
\* and is not any more, by a connection loss, by client.end() or by the exit
\* of the process, it is "NO".
C19_OnlineFlag ==
    /\ (connected /\ shutdown.pc = "none") => retained[Online] = "YES"
    /\ (~connected /\ inits > 0) => retained[Online] = "NO"

\* the client has lost its connection, reconnected, and has then been ended
\* by a graceful shutdown
C19_Witness ==
    /\ inits = 2
    /\ shutdown.ended
    /\ ~connected
    /\ retained[Online] = "NO"

\* C20: a step that leaves the client disconnected changes no retained
\* payload; a step of an invocation changes a retained payload only to what
\* the invocation publishes, connected, in that very step; and the
\* 'connected' listener sets every camera channel to its initial value,
\* whatever was dropped before.
C20_DroppedPublishIsLost ==
    [][/\ (~connected /\ ~connected') => retained' = retained
       /\ \A v \in Invs : inv'[v] # inv[v] =>
            \A t \in DOMAIN retained' :
                (t \notin DOMAIN retained \/ retained'[t] # retained[t]) =>
                    \E j \in Kind(StepLog(v), "pub") :
                        /\ j > Len(inv[v].log)
                        /\ StepLog(v)[j].ok
                        /\ <<StepLog(v)[j].cam, StepLog(v)[j].ch>> = t
                        /\ StepLog(v)[j].v = retained'[t]
       /\ inits' > inits =>
            \A c \in CameraNames :
                /\ retained'[<<c, "trigger">>] = "NO"
                /\ retained'[<<c, "image">>] = EmptyBuffer
                /\ retained'[<<c, "ai">>] = ""
                /\ retained'[<<c, "stats">>] = JSONstringify(EmptyObj)
                /\ retained'[<<c, "status">>] = Label("Idle")]_vars

\* an invocation whose image and AI-response publishes were dropped has
\* returned by the success path, and the client has reconnected since: the
\* image and ai channels hold their initial values
C20_Witness ==
    /\ ReturnedOk
    /\ \E j \in Pub(returned.log, "image") : ~returned.log[j].ok
    /\ \E j \in Pub(returned.log, "ai") : ~returned.log[j].ok
    /\ getStatus(returned.cam).l = "Complete"
    /\ connected
    /\ retained[<<returned.cam, "image">>] = EmptyBuffer
    /\ retained[<<returned.cam, "ai">>] = ""

\* a required section or field is missing from the document, or a camera
\* has captures < 1 or interval < 0
MissingOrInvalid(file) ==
    \/ \E section \in {"mqtt", "openai", "cameras"} : section \notin DOMAIN file
    \/ "mqtt" \in DOMAIN file /\
          \E f \in {"server", "basetopic"} : f \notin DOMAIN file.mqtt
    \/ "openai" \in DOMAIN file /\
          \E f \in {"endpoint", "api_token", "model"} : f \notin DOMAIN file.openai
    \/ "cameras" \in DOMAIN file /\
          \E name \in DOMAIN file.cameras :
              LET camera == file.cameras[name] IN
              \/ \E f \in {"endpoint", "prompt"} : f \notin DOMAIN camera
              \/ "captures" \in DOMAIN camera /\ camera.captures < 1
              \/ "interval" \in DOMAIN camera /\ camera.interval < 0

C22_NoTempFileAtExit == exitCode = 0 => fs = EmptyObj

\* the responses without choices in a log
NoChoices(log) == {j \in Kind(log, "response") : log[j].v = 0}

\* C23: after the inference call has returned a response without choices
\* the invocation throws nothing; once it has returned it has returned by
\* the success path, having published the empty string on the AI-response
\* channel of its camera, recorded the success statistics and set the
\* status Complete.
C23_NoChoicesIsSuccess ==
    /\ \A vl \in Logs : NoChoices(vl[2]) # {} => Kind(vl[2], "throw") = {}
    /\ (Returned /\ NoChoices(returned.log) # {}) =>
          LET log == returned.log IN
          /\ ReturnedOk
          /\ \E r \in NoChoices(log), a \in Pub(log, "ai"), s \in Kind(log, "stats"),
                t \in Status(log, "Complete") :
                /\ r < a /\ a < s /\ s < t
                /\ log[a].v = "" /\ log[a].ok /\ log[a].cam = returned.cam
                /\ DOMAIN log[s].v = {"lastSuccessDate", "lastAiProcessTime",
                                      "lastTotalProcessTime"}

\* a three-capture invocation whose response had no choices has returned
C23_Witness ==
    /\ ReturnedOk
    /\ NoChoices(returned.log) # {}
    /\ returned.cam = "drive"
    /\ getStatus("drive").l = "Complete"

IsCapture(e) == e.k = "capture"

\* the file names chosen by the capture calls of an invocation, in order
CapturePaths(log) ==
    LET cs == SelectSeq(log, IsCapture)
    IN  [j \in 1..Len(cs) |-> cs[j].v]

\* every configured capture of the invocation was made and none failed
AllCaptured(log, cam) ==
    /\ cam \in CameraNames
    /\ Len(CapturePaths(log)) = Cameras[cam].captures
    /\ Thrown(log, "Image capture failed") = {}

\* one inference call, after the image publish, with the file names of all
\* captures in capture order
InferredOnce(log) ==
    \E a \in Kind(log, "infer") :
        /\ Kind(log, "infer") = {a}
        /\ \E i \in Pub(log, "image") : i < a
        /\ \A c \in Kind(log, "capture") : c < a
        /\ log[a].v = CapturePaths(log)

\* C24 (as claimed): a returned invocation whose captures all succeeded has
\* called the inference exactly once, after the image publish, with the
\* list of all its artifacts in capture order.
C24_AllCapturedInfersOnce ==
    (Returned /\ AllCaptured(returned.log, returned.cam)) => InferredOnce(returned.log)

\* C24 (amended): no invocation calls the inference more than once, whether
\* the call fails or not; a call comes after all captures have succeeded
\* and after the image publish and is given the file names of all N
\* captures in capture order; a returned invocation whose captures all
\* succeeded and whose first artifact was read has made the call.
C24_InferenceOnceAfterRead ==
    /\ \A vl \in Logs :
          \/ Kind(vl[2], "infer") = {}
          \/ /\ InferredOnce(vl[2])
             /\ AllCaptured(vl[2], vl[2][1].cam)
    /\ (Returned /\ AllCaptured(returned.log, returned.cam)
          /\ Kind(returned.log, "read") # {}) => InferredOnce(returned.log)

\* a three-capture invocation has returned after its inference call, which
\* was given three different file names
C24_Witness ==
    /\ Returned
    /\ returned.cam = "drive"
    /\ \E a \in Kind(returned.log, "infer") :
          /\ Len(returned.log[a].v) = 3
          /\ Cardinality({returned.log[a].v[j] : j \in 1..3}) = 3

\* the names of the files on disk that invocation v has captured and not
\* yet cleaned up
Artifacts(v) == {inv[v].imagePaths[j] : j \in 1..Len(inv[v].imagePaths)} \cap DOMAIN fs

\* C25 (as claimed): the artifacts that two invocations hold at the same
\* time have different file names.
C25_DistinctNames ==
    \A v1 \in Invs, v2 \in Invs : v1 # v2 => Artifacts(v1) \cap Artifacts(v2) = {}

\* C26 (as claimed): while an invocation is running and has not started its
\* cleanup, every artifact it has captured is on disk and is still the file
\* it wrote: no other invocation has deleted or overwritten it.
C26_OnlyTheOwnerTouches ==
    \A u \in Invs :
        inv[u].pc \in {"capture", "wait", "infer"} =>
            \A j \in 1..Len(inv[u].imagePaths) :
                /\ inv[u].imagePaths[j] \in DOMAIN fs
                /\ fs[inv[u].imagePaths[j]].inv = u

Taking(i, n) == Progress("Taking snapshot i/n", i, n)
Waiting(i, n) == Progress("Waiting for next capture (i/n)", i, n)
CaptureCall == Label("captureImage")

IsCaptureStep(e) ==
    \/ e.k = "capture"
    \/ e.k = "status" /\ e.v.l \in {"Taking snapshot i/n", "Waiting for next capture (i/n)"}

\* the progress labels an invocation has reported and its capture calls, in
\* order
CaptureSteps(log) ==
    LET cs == SelectSeq(log, IsCaptureStep)
    IN  [j \in 1..Len(cs) |-> IF cs[j].k = "capture" THEN CaptureCall ELSE cs[j].v]

\* "Taking snapshot i/n", capture i and, when waits and i < n, "Waiting for next
\* capture (i/n)", for i..n
RECURSIVE Rounds(_, _, _)
Rounds(i, n, waits) ==
    IF i > n THEN <<>>
    ELSE <<Taking(i, n), CaptureCall>>
         \o (IF waits /\ i < n THEN <<Waiting(i, n)>> ELSE <<>>)
         \o Rounds(i + 1, n, waits)

\* C27 (as claimed): a successful invocation with captures = N > 1 has
\* reported "Taking snapshot i/N" once per capture, for i = 1..N in order,
\* and "Waiting for next capture (i/N)" between capture i and "Taking
\* snapshot (i+1)/N" for every i < N, and no Waiting label after the last
\* capture.
C27_ProgressOncePerCapture ==
    (ReturnedOk /\ Cameras[returned.cam].captures > 1) =>
        CaptureSteps(returned.log) = Rounds(1, Cameras[returned.cam].captures, TRUE)

\* C27 (amended): a successful invocation with captures = N > 1 has
\* reported "Taking snapshot 1/N" twice before its first capture and
\* "Taking snapshot i/N" once before capture i for i = 2..N, in order; it
\* has reported "Waiting for next capture (i/N)" between capture i and
\* "Taking snapshot (i+1)/N" for every i < N when interval > 0 and no
\* Waiting label at all when interval = 0; no Waiting label follows the
\* last capture.
C27_ProgressLabels ==
    (ReturnedOk /\ Cameras[returned.cam].captures > 1) =>
        CaptureSteps(returned.log) =
            <<Taking(1, Cameras[returned.cam].captures)>>
            \o Rounds(1, Cameras[returned.cam].captures,
                      Cameras[returned.cam].interval > 0)

\* a two-capture invocation with a positive interval has succeeded
C27_Witness ==
    /\ ReturnedOk
    /\ returned.cam = "yard"
    /\ Status(returned.log, "Waiting for next capture (i/n)") # {}
    /\ Cardinality(Status(returned.log, "Taking snapshot i/n")) = 3

\* the labels without a progress counter
FixedLabels ==
    {"Idle", "Starting image capture", "Taking snapshot", "Publishing image",
     "Processing with AI", "Publishing AI response", "Cleaning up", "Complete",
     "Error", "Offline"}

ValidStatus(c, st) ==
    \/ st \in {Label(l) : l \in FixedLabels}
    \/ /\ st.l = "Taking snapshot i/n"
       /\ c \in CameraNames
       /\ st.n = Cameras[c].captures
       /\ 1 <= st.i /\ st.i <= st.n
    \/ /\ st.l = "Waiting for next capture (i/n)"
       /\ c \in CameraNames
       /\ st.n = Cameras[c].captures
       /\ 1 <= st.i /\ st.i < st.n

\* C28: the tracked status of every camera, and the status reported for a
\* name that has none, is one of the fixed labels; a "Taking snapshot i/n"
\* label has 1 <= i <= n = captures and a "Waiting for next capture (i/n)"
\* label has 1 <= i < n = captures.
C28_StatusEnumeration ==
    \A c \in TriggerNames \cup DOMAIN cameraStatus : ValidStatus(c, getStatus(c))

\* the shutdown has set the untouched camera Offline while another camera
\* shows a Waiting label
C28_Witness ==
    /\ getStatus("yard") = Waiting(1, 2)
    /\ getStatus("drive") = Label("Offline")
    /\ getStatus("ghost") = Label("Idle")

\* the capture calls of log that have failed, each with its number
FailedCaptures(log) ==
    {<<e, Cardinality({c \in Kind(log, "capture") : c < e})>> :
        e \in Thrown(log, "Image capture failed")}

RelayedOnce(log) ==
    /\ \A j \in Kind(log, "status") :
          /\ j < Len(log)
          /\ log[j + 1].k = "pub" /\ log[j + 1].ch = "status"
          /\ log[j + 1].cam = log[j].cam /\ log[j + 1].v = log[j].v
    /\ \A j \in Kind(log, "stats") :
          /\ j < Len(log)
          /\ log[j + 1].k = "pub" /\ log[j + 1].ch = "stats"
          /\ log[j + 1].cam = log[j].cam
    /\ \A k \in Pub(log, "status") : k > 1 /\ log[k - 1].k = "status"
    /\ \A k \in Pub(log, "stats") : k > 1 /\ log[k - 1].k = "stats"

\* C31: every updateStatus call of an invocation is followed by exactly one
\* publish call of the new label on the status channel of its camera;
\* every updateStats call is followed by exactly one publish call on the
\* stats channel of its camera, whose payload is JSON.stringify of the
\* whole statistics record the tracker holds for the camera after the call.
C31_UpdatesAreRelayed ==
    /\ [](\A vl \in Logs : RelayedOnce(vl[2]))
    /\ [][\A v \in Invs :
            (inv'[v] # inv[v] /\
             Cardinality(Kind(StepLog(v), "stats")) > Cardinality(Kind(inv[v].log, "stats"))) =>
            LET log == StepLog(v)
                s == CHOOSE j \in Kind(log, "stats") : \A k \in Kind(log, "stats") : k <= j
            IN  log[s + 1].v = JSONstringify(cameraStats'[StepCam(v)])]_vars

\* an invocation has published statistics that hold the fields of its own
\* success and those of an earlier failure of the camera
C31_Witness ==
    /\ ReturnedOk
    /\ \E k \in Pub(returned.log, "stats") :
          DOMAIN returned.log[k].v.json = SuccessFields \cup ErrorFields

\* C32 (as claimed): the value a read accessor has returned is not changed
\* by a later updateStats or updateStatus: what the caller reads in it is
\* what it held when it was returned.
C32_AccessorsReturnSnapshots == held.acc # "none" => Deref(held) = held.at

\* invocation v has just returned, having set the status of its camera to
\* Complete or to Error
Settled(v) ==
    /\ inv[v].pc = "done"
    /\ returned.v = v
    /\ returned.cam \in CameraNames
    /\ Status(returned.log, "Complete") \cup Status(returned.log, "Error") # {}

\* C33: under fairness, with every capture call, interval wait and
\* inference call ending, an invocation in flight for a configured camera
\* eventually returns, having set the status of its camera to Complete or
\* to Error.
C33_InvocationsReturn ==
    \A v \in Invs : (inv[v].pc \notin {"idle", "done"}) ~> Settled(v)

\* a three-capture invocation has returned after a capture that was started
\* when the clock read MaxClock
C33_Witness ==
    /\ Settled(1)
    /\ returned.cam = "drive"
    /\ \E c \in Kind(returned.log, "capture") : returned.log[c].v = TempPath(MaxClock)

\* invocation v is suspended in a capture call, an interval wait or an
\* inference call
Suspended(v) == inv[v].pc \in {"capture", "wait", "infer"}

\* C34: while the invocation of one camera is suspended in a capture call,
\* an interval wait or an inference call, a trigger for another camera is
\* accepted (handleTrigger can be called for it), and the invocation of the
\* other camera returns, having set Complete or Error, also when the first
\* one stays suspended for ever.
C34_HungCameraBlocksNoOther ==
    /\ []((Suspended(1) /\ inv[2].pc = "idle" /\ connected)
            => ENABLED HandleTrigger(OtherCamera))
    /\ (inv[2].pc \notin {"idle", "done"}) ~> Settled(2)

\* the second camera's invocation has returned while the first camera's
\* invocation is still waiting for its first capture
C34_Witness ==
    /\ Settled(2)
    /\ returned.cam = OtherCamera
    /\ inv[1].pc = "capture"
    /\ inv[1].cam = HungCamera
    /\ inv[1].imagePaths = <<>>

\* a <= b for two durations in seconds
AtMost(a, b) == a.num * b.den <= b.num * a.den

\* C35: the times a successful invocation records, and the ones the tracker
\* holds, satisfy 0 <= lastAiProcessTime <= lastTotalProcessTime.
C35_AiTimeWithinTotalTime ==
    /\ \A vl \in Logs :
          \A s \in Kind(vl[2], "stats") :
              "lastAiProcessTime" \in DOMAIN vl[2][s].v =>
                  /\ AtMost(Seconds(0), vl[2][s].v.lastAiProcessTime)
                  /\ AtMost(vl[2][s].v.lastAiProcessTime, vl[2][s].v.lastTotalProcessTime)
    /\ \A c \in DOMAIN cameraStats :
          "lastAiProcessTime" \in DOMAIN cameraStats[c] =>
              /\ AtMost(Seconds(0), cameraStats[c].lastAiProcessTime)
              /\ AtMost(cameraStats[c].lastAiProcessTime, cameraStats[c].lastTotalProcessTime)

\* a success has been recorded whose inference took 1 ms of the 3 ms between
\* the trigger and the end of the inference
C35_Witness ==
    /\ ReturnedOk
    /\ getStats(returned.cam).lastAiProcessTime = Seconds(1)
    /\ getStats(returned.cam).lastTotalProcessTime = Seconds(3)

\* C36 (as claimed): while the client is connected (and no shutdown has
\* begun), the retained payload of every camera's status channel is the status the tracker holds for it and
\* the retained payload of its stats channel is JSON.stringify of the
\* statistics the tracker holds for it.
C36_RetainedMatchesTracker ==
    (connected /\ shutdown.pc = "none") =>
        \A c \in CameraNames :
            /\ retained[<<c, "status">>] = getStatus(c)
            /\ retained[<<c, "stats">>] = JSONstringify(getStats(c))

\* C37 (as claimed): after an invocation has returned with success, and
\* with no later invocation for its camera, the image and the AI response
\* it published are the retained payloads of the camera's image and ai
\* channels.
C37_ResultsStayRetained ==
    (ReturnedOk /\ InFlight(returned.cam) = {}) =>
        /\ \A i \in Pub(returned.log, "image") :
              returned.log[i].ok => retained[<<returned.cam, "image">>] = returned.log[i].v
        /\ \A a \in Pub(returned.log, "ai") :
              returned.log[a].ok => retained[<<returned.cam, "ai">>] = returned.log[a].v

\* C38 (as claimed): once gracefulShutdown has set the cameras Offline, the
\* tracked status of every camera stays Offline, and so does the retained
\* payload of a status channel that received it.
C38_OfflineIsFinal ==
    shutdown.pc # "none" =>
        \A c \in CameraNames :
            /\ getStatus(c) = Label("Offline")
            /\ (\E j \in Pub(shutdown.log, "status") :
                    shutdown.log[j].cam = c /\ shutdown.log[j].ok)
                => retained[<<c, "status">>] = Label("Offline")

\* the fields of a statistics record come in pairs
Paired(r) ==
    /\ ("lastErrorDate" \in DOMAIN r) = ("lastErrorType" \in DOMAIN r)
    /\ ("lastSuccessDate" \in DOMAIN r) = ("lastAiProcessTime" \in DOMAIN r)
    /\ ("lastSuccessDate" \in DOMAIN r) = ("lastTotalProcessTime" \in DOMAIN r)

\* C39 (as claimed): the statistics of every camera have lastErrorDate
\* exactly when they have lastErrorType and lastSuccessDate exactly when
\* they have lastAiProcessTime and lastTotalProcessTime; as long as no
\* invocation has finished, every record is empty.
C39_PairedAndEmptyUntilFinished ==
    /\ \A c \in TriggerNames : Paired(getStats(c))
    /\ (\A v \in Invs : inv[v].pc # "done") =>
          \A c \in TriggerNames : getStats(c) = EmptyObj

\* C39 (amended): the fields come in these pairs in every state; the record
\* of a camera is empty until an invocation for that camera has recorded
\* an outcome (recordError at the start of the catch block, before it has
\* finished, or recordSuccess), and holds fields from then on.
C39_PairedAndEmptyUntilRecorded ==
    /\ \A c \in TriggerNames : Paired(getStats(c))
    /\ Cardinality({v \in Invs : inv[v].pc = "done"}) <= 1 =>
          \A c \in TriggerNames :
              (getStats(c) # EmptyObj) <=>
                  \E vl \in Logs : \E j \in Kind(vl[2], "stats") : vl[2][j].cam = c

\* the record of a camera holds the two error fields while its only
\* invocation is still in its catch block and nothing has finished
C39_Witness ==
    /\ \A v \in Invs : inv[v].pc # "done"
    /\ inv[1].pc = "errCleanup"
    /\ DOMAIN getStats(inv[1].cam) = ErrorFields

\* C40: when an invocation calls for the publish of Complete on the status
\* channel of its camera it has already called for the publish of the
\* statistics that hold its lastSuccessDate; when it calls for the publish
\* of Error, for the one of the statistics that hold its lastErrorDate and
\* lastErrorType.
C40_StatsBeforeFinalStatus ==
    \A vl \in Logs :
        LET log == vl[2] IN
        \A j \in Pub(log, "status") :
            /\ log[j].v = Label("Complete") =>
                  \E p \in Pub(log, "stats") :
                      /\ p < j /\ log[p].cam = log[j].cam
                      /\ log[p - 1].k = "stats"
                      /\ "lastSuccessDate" \in DOMAIN log[p - 1].v
                      /\ log[p].v.json.lastSuccessDate = log[p - 1].v.lastSuccessDate
            /\ log[j].v = Label("Error") =>
                  \E p \in Pub(log, "stats") :
                      /\ p < j /\ log[p].cam = log[j].cam
                      /\ log[p - 1].k = "stats"
                      /\ "lastErrorDate" \in DOMAIN log[p - 1].v
                      /\ log[p].v.json.lastErrorDate = log[p - 1].v.lastErrorDate
                      /\ log[p].v.json.lastErrorType = log[p - 1].v.lastErrorType

\* the second invocation of a camera has published Complete after the
\* statistics of its success, the first one having failed
C40_Witness ==
    /\ ReturnedOk
    /\ returned.v = 2
    /\ Pub(returned.log, "stats") # {}
    /\ retained[<<returned.cam, "status">>] = Label("Complete")
    /\ "lastErrorDate" \in DOMAIN getStats(returned.cam)

====
